---- MODULE Spec2Model ----
(***************************************************************************)
(* A model of scopelint's convention checker (src/check/mod.rs and         *)
(* src/check/validators/test_names.rs).                                    *)
(*                                                                         *)
(* Strings whose characters matter (names, file contents) are sequences of *)
(* one-character strings, so that the regular expressions and the offset   *)
(* scan are computed character by character as the code does.              *)
(***************************************************************************)
EXTENDS Integers, Sequences, FiniteSets, TLC

VARIABLES
    pc,             \* position of `run`: "walk", "fmt", "finish", "done", "panicked"
                    \* ("call" where a single function is called instead)
    root,           \* index into `paths` of the root being walked (validate's outer loop)
    entries,        \* number of entries WalkDir has yielded so far
    visited,        \* the files WalkDir has already yielded (it yields a path once)
    results,        \* report::Report: the InvalidItems in insertion order
    public_methods, \* validate's per-file `public_methods` of the file processed last
    last,           \* what the last iteration of the walk did and to which entry
    valid_names,    \* run's `valid_names`: "unset", "Ok" or "Err"
    valid_fmt,      \* run's `valid_fmt`: "unset", "Ok" or "Err"
    run_result,     \* what run returned: "none", "Ok" or "Err"
    walk_errors,    \* number of directory-traversal errors logged
    added,          \* number of items handed to add_item / add_items so far
    arg,            \* the argument of the function under test (function specifications)
    ret             \* its result: <<>> before the call, <<value>> after it

vars == <<pc, root, entries, visited, results, public_methods, last,
          valid_names, valid_fmt, run_result, walk_errors, added, arg, ret>>

walkVars == <<pc, root, entries, visited, results, public_methods, last,
              valid_names, valid_fmt, run_result, walk_errors, added>>

(***************************************************************************)
(* Bounds of the model.                                                    *)
(***************************************************************************)
MaxFrags == 4       \* fragments concatenated into a test-name input
MaxNameLen == 4     \* length of a constant-name input
MaxContent == 5     \* length of a file text given to offset_to_line
MaxEntries == 3     \* entries WalkDir yields over the three roots
MaxDecls == 2       \* function declarations of a generated script file

(***************************************************************************)
(* Characters and strings.                                                 *)
(***************************************************************************)
Upper == {"A", "B", "C", "D", "E", "F", "G", "H", "I", "J", "K", "L", "M",
          "N", "O", "P", "Q", "R", "S", "T", "U", "V", "W", "X", "Y", "Z"}

Lower == {"a", "b", "c", "d", "e", "f", "g", "h", "i", "j", "k", "l", "m",
          "n", "o", "p", "q", "r", "s", "t", "u", "v", "w", "x", "y", "z"}

Digit == {"0", "1", "2", "3", "4", "5", "6", "7", "8", "9"}

\* `\w` on the characters a Solidity identifier can hold ([A-Za-z0-9_$]).
Word == Upper \cup Lower \cup Digit \cup {"_"}

\* `[$_]` of RE_VALID_CONSTANT_NAME.
Separators == {"$", "_"}

\* A mutant of UpperOrDigit: the class also takes lowercase letters.
UpperOrDigitLoose == Upper \cup Digit \cup Lower

\* `[A-Z0-9]` of RE_VALID_CONSTANT_NAME.
UpperOrDigit == Upper \cup Digit

\* str::starts_with
StartsWith(s, prefix) ==
    /\ Len(prefix) <= Len(s)
    /\ SubSeq(s, 1, Len(prefix)) = prefix

RECURSIVE Concat(_)
\* The concatenation of a sequence of strings.
Concat(ss) == IF ss = <<>> THEN <<>> ELSE Head(ss) \o Concat(Tail(ss))

\* The strings of length at most n over an alphabet.
StringsUpTo(alphabet, n) == UNION {[1..k -> alphabet] : k \in 0..n}

(***************************************************************************)
(* Regular-expression matching.  A regex is run as the set of positions    *)
(* (number of characters consumed) its prefix can end at; a pattern        *)
(* anchored with ^ and $ matches iff Len(s) is among them starting at {0}. *)
(***************************************************************************)
\* A literal: from each position of P, consume exactly `lit`.
ReLit(s, P, lit) ==
    {p + Len(lit) : p \in {q \in P : /\ q + Len(lit) <= Len(s)
                                     /\ SubSeq(s, q + 1, q + Len(lit)) = lit}}

\* One character of a class.
ReClass(s, P, class) ==
    {p + 1 : p \in {q \in P : q < Len(s) /\ s[q + 1] \in class}}

\* `[class]*`: any number of characters of a class.
ReClassStar(s, P, class) ==
    {q \in 0..Len(s) : \E p \in P : p <= q /\ \A i \in (p + 1)..q : s[i] \in class}

\* `[class]+`
ReClassPlus(s, P, class) == ReClassStar(s, ReClass(s, P, class), class)

\* `(e)?` given the positions after e.
ReOpt(P, afterE) == P \cup afterE

(***************************************************************************)
(* check/mod.rs: the constant-name predicate.                              *)
(***************************************************************************)
\* One iteration of the group `(?:[$_]*[A-Z0-9][$_]*)`.
ConstantGroup(s, P) ==
    ReClassStar(s, ReClass(s, ReClassStar(s, P, Separators), UpperOrDigit), Separators)

RECURSIVE ReConstantRepeat(_, _)
\* `{1,}` after a first iteration: the positions reached by any further iterations.
ReConstantRepeat(s, P) ==
    LET Q == P \cup ConstantGroup(s, P)
    IN  IF Q = P THEN P ELSE ReConstantRepeat(s, Q)

\* RE_VALID_CONSTANT_NAME.is_match: ^(?:[$_]*[A-Z0-9][$_]*){1,}$
RE_VALID_CONSTANT_NAME(s) == Len(s) \in ReConstantRepeat(s, ConstantGroup(s, {0}))

is_valid_constant_name(name) == RE_VALID_CONSTANT_NAME(name)

(***************************************************************************)
(* check/validators/test_names.rs: the test-name predicate.                *)
(***************************************************************************)
test == <<"t", "e", "s", "t">>
Fork == <<"F", "o", "r", "k">>
Fuzz == <<"F", "u", "z", "z">>
Revert_ == <<"_", "R", "e", "v", "e", "r", "t">>
If == <<"I", "f">>
When == <<"W", "h", "e", "n">>
On == <<"O", "n">>

\* `test(Fork)?(Fuzz)?(_Revert(If|When|On))?_`: the positions after the prefix
\* that ends with the mandatory underscore.
ReTestPrefix(s) ==
    LET p1 == ReLit(s, {0}, test)
        p2 == ReOpt(p1, ReLit(s, p1, Fork))
        p3 == ReOpt(p2, ReLit(s, p2, Fuzz))
        rv == ReLit(s, p3, Revert_)
        p4 == ReOpt(p3, ReLit(s, rv, If) \cup ReLit(s, rv, When) \cup ReLit(s, rv, On))
    IN  ReLit(s, p4, <<"_">>)

RECURSIVE ReWordGroupStar(_, _)
\* `(\w+)*`: zero or more iterations of the group `\w+`.
ReWordGroupStar(s, P) ==
    LET Q == P \cup ReClassPlus(s, P, Word)
    IN  IF Q = P THEN P ELSE ReWordGroupStar(s, Q)

\* RE_VALID_TEST_NAME.is_match: ^test(Fork)?(Fuzz)?(_Revert(If|When|On))?_(\w+)*$
RE_VALID_TEST_NAME(s) == Len(s) \in ReWordGroupStar(s, ReTestPrefix(s))

is_valid_test_name(name) ==
    IF ~StartsWith(name, test)
    THEN TRUE
    ELSE StartsWith(name, test) /\ RE_VALID_TEST_NAME(name)

(***************************************************************************)
(* check/mod.rs: offset_to_line.  A call either returns a line or panics.  *)
(***************************************************************************)
Returned(n) == [panicked |-> FALSE, line |-> n]
Panicked == [panicked |-> TRUE, line |-> 0]

RECURSIVE OffsetScan(_, _, _, _)
\* The loop over content.chars().enumerate(), at the character of index i
\* (offset i - 1) with the lines counted so far; falling out of the loop is the
\* unreachable!() after it.
OffsetScan(content, start, i, line_counter) ==
    IF i > Len(content)
    THEN Panicked
    ELSE LET counted == IF content[i] = "\n" THEN line_counter + 1 ELSE line_counter
         IN  IF i - 1 > start
             THEN Returned(counted)
             ELSE OffsetScan(content, start, i + 1, counted)

\* debug_assert!(content.len() > start) panics in a debug build; a release build
\* scans to the end without returning and panics at unreachable!().
offset_to_line(content, start) ==
    IF ~(Len(content) > start)
    THEN Panicked
    ELSE OffsetScan(content, start, 1, 1)

(***************************************************************************)
(* The parse tree (solang_parser::pt) as far as the checks read it.        *)
(*   SourceUnitPart / ContractPart: a record with field `part`:            *)
(*     "FunctionDefinition": ty, name (Option: <<>> or <<identifier>>),  *)
(*                           attributes (a set), loc (start offset)        *)
(*     "VariableDefinition": name, attrs (a set), loc                      *)
(*     "ContractDefinition": parts (a sequence of ContractParts)           *)
(*     "Other": pragmas, imports, events, ...                              *)
(***************************************************************************)
FunctionDefinition(ty, name, attributes, loc) ==
    [part |-> "FunctionDefinition", ty |-> ty, name |-> name,
     attributes |-> attributes, loc |-> loc]

VariableDefinition(name, attrs, loc) ==
    [part |-> "VariableDefinition", name |-> name, attrs |-> attrs, loc |-> loc]

ContractDefinition(parts) == [part |-> "ContractDefinition", parts |-> parts]

OtherPart == [part |-> "Other"]

run == <<"r", "u", "n">>
setUp == <<"s", "e", "t", "U", "p">>
constructor == <<"c", "o", "n", "s", "t", "r", "u", "c", "t", "o", "r">>
fallback == <<"f", "a", "l", "l", "b", "a", "c", "k">>
receive == <<"r", "e", "c", "e", "i", "v", "e">>

\* impl Name for FunctionDefinition: name() unwraps the identifier of a function
\* or modifier, which panics when the parser gave it none.
NamePanics(f) == f.ty \in {"Function", "Modifier"} /\ f.name = <<>>

FunctionName(f) ==
    CASE f.ty = "Constructor" -> constructor
      [] f.ty = "Fallback" -> fallback
      [] f.ty = "Receive" -> receive
      [] OTHER -> f.name[1]

IsFunction(e) == e.part = "FunctionDefinition"
IsVariable(e) == e.part = "VariableDefinition"
IsContract(e) == e.part = "ContractDefinition"

RECURSIVE ContractParts(_)
\* The immediate members of the contracts of a tree, in order.
ContractParts(pt) ==
    IF pt = <<>>
    THEN <<>>
    ELSE (IF IsContract(Head(pt)) THEN Head(pt).parts ELSE <<>>)
         \o ContractParts(Tail(pt))

RECURSIVE FlatParts(_)
\* The top-level items of a tree with each contract replaced by its immediate
\* members, in order.
FlatParts(pt) ==
    IF pt = <<>>
    THEN <<>>
    ELSE (IF IsContract(Head(pt)) THEN Head(pt).parts ELSE <<Head(pt)>>)
         \o FlatParts(Tail(pt))

\* The elements of a sequence.
Range(s) == {s[i] : i \in DOMAIN s}

(***************************************************************************)
(* Directory entries.  A path is its root and the file name split at the   *)
(* dots: <<"Deploy", "s", "sol">> is Deploy.s.sol under the root.          *)
(***************************************************************************)
paths == <<"./src", "./script", "./test">>

DirEntry(r, name, is_file) == [root |-> r, name |-> name, is_file |-> is_file]

\* Path::extension: the part after the last dot of the file name, none for a
\* name without a dot or with its only dot in front.
HasExtension(name, ext) ==
    /\ Len(name) >= 2
    /\ ~(Len(name) = 2 /\ name[1] = "")
    /\ name[Len(name)] = ext

\* dent.path().to_str().ends_with(".s.sol")
EndsWithSSol(name) ==
    /\ Len(name) >= 3
    /\ name[Len(name) - 1] = "s"
    /\ name[Len(name)] = "sol"

\* A mutant of IsScript: the root is not compared.
IsScriptAnyRoot(path, dent) == EndsWithSSol(dent.name)

\* validate's `is_script`.
IsScript(path, dent) == path = "./script" /\ EndsWithSSol(dent.name)

(***************************************************************************)
(* report: InvalidItem and Report.                                         *)
(***************************************************************************)
\* `text` is the offending symbol or the message: a fixed message (empty for a
\* symbol) and the names formatted into it.
InvalidItem(kind, file, text, line) ==
    [kind |-> kind, file |-> file, text |-> text, line |-> line]

Symbol(name) == [msg |-> "", names |-> <<name>>]

Message(msg, names) == [msg |-> msg, names |-> names]

Validators == {"Constant", "Script", "Src", "Test"}

add_item(report, item) == Append(report, item)

add_items(report, items) == report \o items

is_valid(report) == report = <<>>

\* The items of one rule kind, as the report groups them for display.
Group(report, kind) == SelectSeq(report, LAMBDA item : item.kind = kind)

(***************************************************************************)
(* The checks of one file.  Each yields items whose `line` is still the    *)
(* outcome of offset_to_line (a line or a panic).                          *)
(***************************************************************************)
\* utils IsFileKind, FileKind::TestContracts: the files under the test root.
IsTestContracts(dent) == dent.root = "./test"

\* The files the internal/private naming rule applies to: non-test sources.
IsSrcContracts(dent) == dent.root = "./src"

Functions(pt) == SelectSeq(FlatParts(pt), IsFunction)

Variables(pt) == SelectSeq(FlatParts(pt), IsVariable)

\* checks::test_names::validate with validate_name.
TestNamesValidate(dent, content, pt) ==
    IF ~IsTestContracts(dent)
    THEN <<>>
    ELSE LET bad == SelectSeq(Functions(pt),
                              LAMBDA f : ~is_valid_test_name(FunctionName(f)))
         IN  [i \in 1..Len(bad) |->
                InvalidItem("Test", dent, Symbol(FunctionName(bad[i])),
                            offset_to_line(content, bad[i].loc))]

\* The visibility attributes the rules call private.
PrivateVisibilities == {"Private", "Internal"}

\* checks::src_names_internal::validate: in a source file every private or
\* internal function and variable has a name that starts with an underscore.
SrcNamesInternalValidate(dent, content, pt) ==
    IF ~IsSrcContracts(dent)
    THEN <<>>
    ELSE LET DeclName(d) == IF IsFunction(d) THEN FunctionName(d) ELSE d.name
             DeclAttrs(d) == IF IsFunction(d) THEN d.attributes ELSE d.attrs
             decls == SelectSeq(FlatParts(pt),
                                LAMBDA d : IsFunction(d) \/ IsVariable(d))
             bad == SelectSeq(decls,
                              LAMBDA d : /\ DeclAttrs(d) \cap PrivateVisibilities # {}
                                         /\ ~StartsWith(DeclName(d), <<"_">>))
         IN  [i \in 1..Len(bad) |->
                InvalidItem("Src", dent, Symbol(DeclName(bad[i])),
                            offset_to_line(content, bad[i].loc))]

\* impl Validate for VariableDefinition, over the variables of the element loop.
VariableValidate(dent, content, pt) ==
    LET is_constant(v) == v.attrs \cap {"Constant", "Immutable"} # {}
        bad == SelectSeq(Variables(pt),
                         LAMBDA v : is_constant(v) /\ ~is_valid_constant_name(v.name))
    IN  [i \in 1..Len(bad) |->
           InvalidItem("Constant", dent, Symbol(bad[i].name),
                       offset_to_line(content, bad[i].loc))]

\* The messages of the script check (the source quotes run and setUp with
\* backticks, written here as apostrophes).
MsgNoRun == "No 'run' method found"
MsgNotRun == "The only public method must be named 'run'"
MsgSeveral == "Scripts must have a single public method named 'run' (excluding 'setUp'), but the following methods were found: "

\* A mutant of IsPrivate: internal functions count as public.
IsPrivateOnly(f) == "Private" \in f.attributes

\* validate's `is_private` of a function.
IsPrivate(f) == \E a \in f.attributes : a \in {"Private", "Internal"}

\* validate's `public_methods` after the element loop of a file.
PublicMethods(is_script, pt) ==
    LET members == SelectSeq(ContractParts(pt), IsFunction)
        pushed == SelectSeq(members,
                            LAMBDA f : /\ is_script
                                       /\ ~IsPrivate(f)
                                       /\ FunctionName(f) # setUp
                                       /\ FunctionName(f) # constructor)
    IN  [i \in 1..Len(pushed) |-> FunctionName(pushed[i])]

\* A mutant of ScriptValidate: a single public method passes whatever its name.
ScriptValidateAnyName(is_script, dent, methods) ==
    IF ~is_script \/ Len(methods) = 1
    THEN <<>>
    ELSE IF Len(methods) = 0
         THEN <<InvalidItem("Script", dent, Message(MsgNoRun, <<>>), 0)>>
         ELSE <<InvalidItem("Script", dent,
                  Message(MsgSeveral, methods), 0)>>

\* The script check after the element loop: the items it adds.
ScriptValidate(is_script, dent, methods) ==
    IF ~is_script
    THEN <<>>
    ELSE CASE Len(methods) = 0 ->
                <<InvalidItem("Script", dent, Message(MsgNoRun, <<>>), 0)>>
           [] Len(methods) = 1 ->
                IF methods[1] # run
                THEN <<InvalidItem("Script", dent,
                         Message(MsgNotRun, <<>>), 0)>>
                ELSE <<>>
           [] OTHER ->
                <<InvalidItem("Script", dent,
                    Message(MsgSeveral, methods), 0)>>

\* What one iteration of validate's loop does to a file that was read and
\* parsed: it panics (a name() or offset_to_line call panics), or it adds items
\* to the report and leaves `public_methods`.
ValidateFile(path, dent, file) ==
    LET is_script == IsScript(path, dent)
        name_panics ==
            \/ IsTestContracts(dent) /\ \E f \in Range(Functions(file.pt)) : NamePanics(f)
            \/ IsSrcContracts(dent) /\ \E f \in Range(Functions(file.pt)) : NamePanics(f)
            \/ \E f \in Range(SelectSeq(ContractParts(file.pt), IsFunction)) : NamePanics(f)
    IN  IF name_panics
        THEN [panicked |-> TRUE, items |-> <<>>, public_methods |-> <<>>]
        ELSE LET methods == PublicMethods(is_script, file.pt)
                 found == TestNamesValidate(dent, file.content, file.pt)
                          \o SrcNamesInternalValidate(dent, file.content, file.pt)
                          \o VariableValidate(dent, file.content, file.pt)
                          \o ScriptValidate(is_script, dent, methods)
             IN  IF \E i \in DOMAIN found : found[i].kind # "Script" /\ found[i].line.panicked
                 THEN [panicked |-> TRUE, items |-> <<>>, public_methods |-> <<>>]
                 ELSE [panicked |-> FALSE,
                       items |-> [i \in DOMAIN found |->
                                    IF found[i].kind = "Script"
                                    THEN found[i]
                                    ELSE [found[i] EXCEPT !.line = found[i].line.line]],
                       public_methods |-> methods]

(***************************************************************************)
(* The files of the walk.  A file is its text and its parse tree; every    *)
(* declaration sits on a line of its own, three characters long.           *)
(***************************************************************************)
DeclLine == <<"d", ";", "\n">>

Content(n) == Concat([i \in 1..n |-> DeclLine])

foo == <<"f", "o", "o">>
helper == <<"h", "e", "l", "p", "e", "r">>
testBad == <<"t", "e", "s", "t", "B", "a", "d">>
bad == <<"b", "a", "d">>
MAX == <<"M", "A", "X">>

\* setUp and run, both public, and a well-named constant.
FileRunOnly ==
    [content |-> Content(4),
     pt |-> <<OtherPart,
              ContractDefinition(<<
                  VariableDefinition(MAX, {"Constant", "Public"}, 3),
                  FunctionDefinition("Function", <<setUp>>, {"Public"}, 6),
                  FunctionDefinition("Function", <<run>>, {"Public"}, 9)>>)>>]

\* A contract whose only function is internal.
FileNoPublic ==
    [content |-> Content(2),
     pt |-> <<OtherPart,
              ContractDefinition(<<
                  FunctionDefinition("Function", <<<<"_">> \o helper>>, {"Internal"}, 3)>>)>>]

\* A free function, and a contract with run (no visibility) and an external foo.
FileTwoPublic ==
    [content |-> Content(3),
     pt |-> <<FunctionDefinition("Function", <<helper>>, {}, 0),
              ContractDefinition(<<
                  FunctionDefinition("Function", <<run>>, {}, 3),
                  FunctionDefinition("Function", <<foo>>, {"External"}, 6)>>)>>]

\* A badly named internal constant, a badly named test and an internal helper.
FileBadNames ==
    [content |-> Content(4),
     pt |-> <<OtherPart,
              ContractDefinition(<<
                  VariableDefinition(bad, {"Constant", "Internal"}, 3),
                  FunctionDefinition("Function", <<testBad>>, {"Public"}, 6),
                  FunctionDefinition("Function", <<helper>>, {"Internal"}, 9)>>)>>]

\* A pre-0.6 fallback, `function() external`: a function without a name.
FileUnnamed ==
    [content |-> Content(2),
     pt |-> <<OtherPart,
              ContractDefinition(<<
                  FunctionDefinition("Function", <<>>, {"External"}, 3)>>)>>]

Files == {FileRunOnly, FileNoPublic, FileTwoPublic, FileBadNames, FileUnnamed}

\* The file names with the extension `sol` that WalkDir may yield in a root.
SolNames == {<<"A", "sol">>, <<"A", "s", "sol">>}

\* The entries the walk skips: a directory (even one named like a script) and
\* files without the extension.
SkippedEntries(r) ==
    {DirEntry(r, <<"old", "s", "sol">>, FALSE),
     DirEntry(r, <<"README", "md">>, TRUE),
     DirEntry(r, <<"", "sol">>, TRUE)}

NoEntry == DirEntry("", <<>>, FALSE)

NoFile == [content |-> <<>>, pt |-> <<>>]

\* What an iteration of the walk did (`kind`), to which entry, and the file it
\* parsed when it got that far.
Iteration(kind, dent, file) == [kind |-> kind, dent |-> dent, file |-> file]

(***************************************************************************)
(* run, validate_conventions and validate (check/mod.rs).                  *)
(***************************************************************************)
Init ==
    /\ pc = "walk"
    /\ root = 1
    /\ entries = 0
    /\ visited = {}
    /\ results = <<>>
    /\ public_methods = <<>>
    /\ last = Iteration("none", NoEntry, NoFile)
    /\ valid_names = "unset"
    /\ valid_fmt = "unset"
    /\ run_result = "none"
    /\ walk_errors = 0
    /\ added = 0
    /\ arg = <<>>
    /\ ret = <<>>

\* WalkDir may yield one more entry for the root being walked.
Yields == pc = "walk" /\ entries < MaxEntries

\* A mutant of WalkErr: the traversal error ends the walk with an error.
WalkErrAbort ==
    /\ Yields
    /\ entries' = entries + 1
    /\ walk_errors' = walk_errors + 1
    /\ last' = Iteration("err", NoEntry, NoFile)
    /\ valid_names' = "Err"
    /\ pc' = "fmt"
    /\ UNCHANGED <<root, visited, results, public_methods, valid_fmt, run_result,
                   added, arg, ret>>

\* The entry is an error: it is printed and the loop continues.
WalkErr ==
    /\ Yields
    /\ entries' = entries + 1
    /\ walk_errors' = walk_errors + 1
    /\ last' = Iteration("err", NoEntry, NoFile)
    /\ UNCHANGED <<pc, root, visited, results, public_methods, valid_names, valid_fmt,
                   run_result, added, arg, ret>>

\* The entry is not a file, or its extension is not `sol`: the loop continues.
SkipEntry(dent) ==
    /\ Yields
    /\ dent \notin visited
    /\ ~dent.is_file \/ ~HasExtension(dent.name, "sol")
    /\ entries' = entries + 1
    /\ visited' = visited \cup {dent}
    /\ last' = Iteration("skipped", dent, NoFile)
    /\ UNCHANGED <<pc, root, results, public_methods, valid_names, valid_fmt,
                   run_result, walk_errors, added, arg, ret>>

\* fs::read_to_string fails: `?` returns the error from validate, and
\* validate_conventions returns it to run.
ReadFail(dent) ==
    /\ Yields
    /\ dent \notin visited
    /\ dent.is_file /\ HasExtension(dent.name, "sol")
    /\ entries' = entries + 1
    /\ visited' = visited \cup {dent}
    /\ last' = Iteration("read_failed", dent, NoFile)
    /\ valid_names' = "Err"
    /\ pc' = "fmt"
    /\ UNCHANGED <<root, results, public_methods, valid_fmt, run_result,
                   walk_errors, added, arg, ret>>

\* A mutant of ParseFail: the file is skipped and the walk goes on.
ParseFailSkip(dent) ==
    /\ Yields
    /\ dent \notin visited
    /\ dent.is_file /\ HasExtension(dent.name, "sol")
    /\ entries' = entries + 1
    /\ visited' = visited \cup {dent}
    /\ last' = Iteration("parse_failed", dent, NoFile)
    /\ UNCHANGED <<pc, root, results, public_methods, valid_names, valid_fmt,
                   run_result, walk_errors, added, arg, ret>>

\* solang_parser::parse fails: expect("Parsing failed") panics.
ParseFail(dent) ==
    /\ Yields
    /\ dent \notin visited
    /\ dent.is_file /\ HasExtension(dent.name, "sol")
    /\ entries' = entries + 1
    /\ visited' = visited \cup {dent}
    /\ last' = Iteration("parse_failed", dent, NoFile)
    /\ pc' = "panicked"
    /\ UNCHANGED <<root, results, public_methods, valid_names, valid_fmt,
                   run_result, walk_errors, added, arg, ret>>

\* The file is read and parsed and the checks run on it.
ProcessFile(dent, file) ==
    /\ Yields
    /\ dent \notin visited
    /\ dent.is_file /\ HasExtension(dent.name, "sol")
    /\ entries' = entries + 1
    /\ visited' = visited \cup {dent}
    /\ LET out == ValidateFile(paths[root], dent, file)
       IN  IF out.panicked
           THEN /\ pc' = "panicked"
                /\ last' = Iteration("panicked", dent, file)
                /\ UNCHANGED <<results, public_methods, added>>
           ELSE /\ pc' = pc
                /\ last' = Iteration("processed", dent, file)
                /\ LET found == SelectSeq(out.items, LAMBDA item : item.kind # "Script")
                       script == SelectSeq(out.items, LAMBDA item : item.kind = "Script")
                   IN  results' = IF script = <<>>
                                  THEN add_items(results, found)
                                  ELSE add_item(add_items(results, found), script[1])
                /\ added' = added + Len(out.items)
                /\ public_methods' = out.public_methods
    /\ UNCHANGED <<root, valid_names, valid_fmt, run_result, walk_errors, arg, ret>>

\* WalkDir of the root is exhausted: the outer loop takes the next root.
NextRoot ==
    /\ pc = "walk"
    /\ root < Len(paths)
    /\ root' = root + 1
    /\ UNCHANGED <<pc, entries, visited, results, public_methods, last, valid_names,
                   valid_fmt, run_result, walk_errors, added, arg, ret>>

\* A mutant of ConventionsVerdict: the report is not looked at.
ConventionsVerdictOk(report) == "Ok"

\* validate_conventions on the report validate returned.
ConventionsVerdict(report) == IF ~is_valid(report) THEN "Err" ELSE "Ok"

\* The last root is exhausted: validate returns the report and
\* validate_conventions its verdict.
ValidateConventions ==
    /\ pc = "walk"
    /\ root = Len(paths)
    /\ valid_names' = ConventionsVerdict(results)
    /\ pc' = "fmt"
    /\ UNCHANGED <<root, entries, visited, results, public_methods, last, valid_fmt,
                   run_result, walk_errors, added, arg, ret>>

\* checks::formatting::run: the external formatting pass succeeds or fails.
Formatting ==
    /\ pc = "fmt"
    /\ \E v \in {"Ok", "Err"} : valid_fmt' = v
    /\ pc' = "finish"
    /\ UNCHANGED <<root, entries, visited, results, public_methods, last, valid_names,
                   run_result, walk_errors, added, arg, ret>>

\* A mutant of RunVerdict: one passing check is enough.
RunVerdictEither(names, fmt) == IF names = "Ok" \/ fmt = "Ok" THEN "Ok" ELSE "Err"

\* run's result from the two verdicts.
RunVerdict(names, fmt) == IF names = "Ok" /\ fmt = "Ok" THEN "Ok" ELSE "Err"

RunReturn ==
    /\ pc = "finish"
    /\ run_result' = RunVerdict(valid_names, valid_fmt)
    /\ pc' = "done"
    /\ UNCHANGED <<root, entries, visited, results, public_methods, last, valid_names,
                   valid_fmt, walk_errors, added, arg, ret>>

Next ==
    \/ WalkErr
    \/ \E dent \in SkippedEntries(paths[root]) : SkipEntry(dent)
    \/ \E name \in SolNames : ReadFail(DirEntry(paths[root], name, TRUE))
    \/ \E name \in SolNames : ParseFail(DirEntry(paths[root], name, TRUE))
    \/ \E name \in SolNames, file \in Files :
          ProcessFile(DirEntry(paths[root], name, TRUE), file)
    \/ NextRoot
    \/ ValidateConventions
    \/ Formatting
    \/ RunReturn

Spec == Init /\ [][Next]_vars

(***************************************************************************)
(* Specifications of single functions: Init draws the argument, the one    *)
(* action calls the function.  The walk does not run in them.              *)
(***************************************************************************)
WalkIdle ==
    /\ pc = "call"
    /\ root = 1
    /\ entries = 0
    /\ visited = {}
    /\ results = <<>>
    /\ public_methods = <<>>
    /\ last = Iteration("none", NoEntry, NoFile)
    /\ valid_names = "unset"
    /\ valid_fmt = "unset"
    /\ run_result = "none"
    /\ walk_errors = 0
    /\ added = 0

\* Function names put together from the pieces of the pattern, a lowercase
\* letter and a character outside \w.
NameFragments == {test, Fork, Fuzz, Revert_, If, When, On, <<"_">>, <<"x">>, <<"$">>}

TestNameInputs == {Concat(fs) : fs \in StringsUpTo(NameFragments, MaxFrags)}

InitTestName == WalkIdle /\ arg \in TestNameInputs /\ ret = <<>>

CallIsValidTestName ==
    /\ pc = "call"
    /\ ret = <<>>
    /\ ret' = <<is_valid_test_name(arg)>>
    /\ UNCHANGED <<walkVars, arg>>

SpecTestName == InitTestName /\ [][CallIsValidTestName]_vars

\* Constant names over an uppercase letter, a digit, the two separators and a
\* lowercase letter.
ConstantAlphabet == {"A", "7", "_", "$", "a"}

InitConstantName == WalkIdle /\ arg \in StringsUpTo(ConstantAlphabet, MaxNameLen) /\ ret = <<>>

CallIsValidConstantName ==
    /\ pc = "call"
    /\ ret = <<>>
    /\ ret' = <<is_valid_constant_name(arg)>>
    /\ UNCHANGED <<walkVars, arg>>

SpecConstantName == InitConstantName /\ [][CallIsValidConstantName]_vars

\* File texts of letters and newlines, and an offset inside the text.
OffsetInputs ==
    {[content |-> c, start |-> o] :
        c \in StringsUpTo({"a", "\n"}, MaxContent) \ {<<>>}, o \in 0..(MaxContent - 1)}

InitOffsetToLine ==
    /\ WalkIdle
    /\ arg \in {a \in OffsetInputs : a.start < Len(a.content)}
    /\ ret = <<>>

CallOffsetToLine ==
    /\ pc = "call"
    /\ ret = <<>>
    /\ ret' = <<offset_to_line(arg.content, arg.start)>>
    /\ UNCHANGED <<walkVars, arg>>

SpecOffsetToLine == InitOffsetToLine /\ [][CallOffsetToLine]_vars

\* The function declarations of a generated script file, without their place.
ScriptFunctions ==
    {[ty |-> "Function", name |-> <<run>>, attributes |-> {}],
     [ty |-> "Function", name |-> <<run>>, attributes |-> {"Public"}],
     [ty |-> "Function", name |-> <<run>>, attributes |-> {"Internal"}],
     [ty |-> "Function", name |-> <<setUp>>, attributes |-> {"Public"}],
     [ty |-> "Function", name |-> <<foo>>, attributes |-> {"External", "View"}],
     [ty |-> "Function", name |-> <<foo>>, attributes |-> {"Private"}],
     [ty |-> "Function", name |-> <<helper>>, attributes |-> {}],
     [ty |-> "Modifier", name |-> <<foo>>, attributes |-> {}],
     [ty |-> "Constructor", name |-> <<>>, attributes |-> {}],
     [ty |-> "Receive", name |-> <<>>, attributes |-> {"External", "Payable"}],
     [ty |-> "Function", name |-> <<>>, attributes |-> {"External"}]}

\* Where a declaration of a generated file sits: at the top level, or in the
\* first or the second contract of the file.
Places == {"top", "C1", "C2"}

\* The file of a sequence of placed declarations: the declaration of index i is
\* on line i; the top-level functions come first, then the two contracts.
ScriptFile(decls) ==
    LET placed == [i \in 1..Len(decls) |->
                     [f |-> FunctionDefinition(decls[i].f.ty, decls[i].f.name,
                                               decls[i].f.attributes, 3 * (i - 1)),
                      place |-> decls[i].place]]
        At(place) == LET there == SelectSeq(placed, LAMBDA d : d.place = place)
                     IN  [i \in 1..Len(there) |-> there[i].f]
    IN  [content |-> Content(Len(decls) + 1),
         pt |-> At("top") \o <<ContractDefinition(At("C1")), ContractDefinition(At("C2"))>>]

\* A declaration in its place.  Outside a contract Solidity has only free
\* functions: named functions without a visibility.
PlacedDeclarations ==
    {d \in [f : ScriptFunctions, place : Places] :
        d.place = "top" =>
            d.f.ty = "Function" /\ d.f.name # <<>> /\ d.f.attributes = {}}

ScriptFileInputs ==
    {ScriptFile(decls) : decls \in StringsUpTo(PlacedDeclarations, MaxDecls)}

ScriptEntry == DirEntry("./script", <<"Deploy", "s", "sol">>, TRUE)

InitScriptFile == WalkIdle /\ arg \in ScriptFileInputs /\ ret = <<>>

\* One iteration of validate's loop on an executable script of the script root.
CallValidateFile ==
    /\ pc = "call"
    /\ ret = <<>>
    /\ ret' = <<ValidateFile("./script", ScriptEntry, arg)>>
    /\ UNCHANGED <<walkVars, arg>>

SpecScriptFile == InitScriptFile /\ [][CallValidateFile]_vars

(***************************************************************************)
(* Properties.                                                             *)
(***************************************************************************)
\* The pattern test(Fork)?(Fuzz)?(_Revert(If|When|On))?_\w+ on a whole name.
MatchesTestPattern(s) == Len(s) \in ReClassPlus(s, ReTestPrefix(s), Word)

\* C1: is_valid_test_name(name) is true iff the name does not start with "test"
\* or the whole name matches test(Fork)?(Fuzz)?(_Revert(If|When|On))?_\w+.
C1_TestNameIffPattern ==
    ret # <<>> =>
        (ret[1] <=> (~StartsWith(arg, test) \/ MatchesTestPattern(arg)))

\* The number of newline characters strictly before offset o of a text.
NewlinesBefore(content, o) == Cardinality({i \in 1..o : content[i] = "\n"})

\* C2: for every offset o inside a text, offset_to_line(content, o) returns a
\* line number, and it is 1 + the number of newlines strictly before o.
C2_LineIsOnePlusNewlinesBefore ==
    ret # <<>> =>
        /\ ~ret[1].panicked
        /\ ret[1].line = 1 + NewlinesBefore(arg.content, arg.start)

HasLower(s) == \E i \in DOMAIN s : s[i] \in Lower
HasUpperOrDigit(s) == \E i \in DOMAIN s : s[i] \in Upper \cup Digit
OnlyUpperDigitSeparator(s) == \A i \in DOMAIN s : s[i] \in Upper \cup Digit \cup {"_", "$"}

\* C4: is_valid_constant_name is true for every string of uppercase letters,
\* digits, `_` and `$` with at least one uppercase letter or digit, and false
\* for every string that contains a lowercase letter.
C4_ConstantName ==
    ret # <<>> =>
        /\ (OnlyUpperDigitSeparator(arg) /\ HasUpperOrDigit(arg)) => ret[1] = TRUE
        /\ HasLower(arg) => ret[1] = FALSE

\* A name with separators on both sides of an uppercase letter was accepted.
C4_Witness == ret = <<TRUE>> /\ arg = <<"$", "_", "A", "$">>

\* The number of violations a report holds over all its rule-kind groups.
RECURSIVE SumOver(_, _)
SumOver(S, report) ==
    IF S = {}
    THEN 0
    ELSE LET k == CHOOSE x \in S : TRUE
         IN  Len(Group(report, k)) + SumOver(S \ {k}, report)

TotalViolations(report) == SumOver(Validators, report)

\* The walk went through every root: validate returned its report.
ReportBuilt == pc \in {"fmt", "finish", "done"} /\ last.kind # "read_failed"

\* C5: run returns Ok iff the report the walk built is clean and the formatting
\* pass succeeded, and an error otherwise; the formatting pass adds nothing to
\* the report.
C5_RunVerdict ==
    pc = "done" =>
        /\ run_result \in {"Ok", "Err"}
        /\ ReportBuilt =>
              (run_result = "Ok" <=> (TotalViolations(results) = 0 /\ valid_fmt = "Ok"))
        /\ run_result = "Ok" => ReportBuilt
        /\ Len(results) = added

\* The naming report was clean and the formatting pass alone failed the run.
C5_Witness ==
    /\ pc = "done"
    /\ last.kind = "processed"
    /\ results = <<>>
    /\ valid_fmt = "Err"
    /\ run_result = "Err"

\* C6: after the add_item / add_items calls of a walk on the empty report,
\* is_valid() is true iff the report holds no violation over all its groups,
\* which is iff none was added; one added violation of any kind makes the
\* naming verdict, and so the run, fail.
C6_IsValidIffNoViolation ==
    /\ is_valid(results) <=> TotalViolations(results) = 0
    /\ is_valid(results) <=> added = 0
    /\ (ReportBuilt /\ added > 0) => valid_names = "Err"
    /\ (pc = "done" /\ added > 0) => run_result = "Err"

\* One violation, a passing formatting pass, and the run failed.
C6_Witness ==
    /\ pc = "done"
    /\ ReportBuilt
    /\ added = 1
    /\ valid_fmt = "Ok"
    /\ run_result = "Err"

\* Whether a function declaration is one the claim calls an entrypoint: no
\* private or internal visibility, and not setUp or the constructor.
Reachable(f) ==
    /\ "Private" \notin f.attributes
    /\ "Internal" \notin f.attributes
    /\ ~(f.ty \in {"Function", "Modifier"} /\ f.name = <<setUp>>)
    /\ f.ty # "Constructor"

\* The names of the declarations of a sequence that are entrypoints, in order.
ReachableNames(fs) ==
    LET kept == SelectSeq(fs, Reachable)
    IN  [i \in 1..Len(kept) |-> FunctionName(kept[i])]

\* C7 as stated: the collected entrypoints of an executable script are the
\* names of all its function-like declarations, top-level ones and contract
\* members alike, that are not private or internal and not named setUp or
\* constructor.
C7_EntrypointsOfAllDeclarations ==
    (ret # <<>> /\ ~ret[1].panicked /\ \A f \in Range(Functions(arg.pt)) : ~NamePanics(f)) =>
        ret[1].public_methods = ReachableNames(Functions(arg.pt))

\* C7, amended: the collected entrypoints of an executable script are the names
\* of the function-like declarations that are immediate members of its
\* contracts, not private or internal and not named setUp or constructor, a
\* member without a visibility attribute included; a top-level function is
\* never collected.
C7_EntrypointsOfContractMembers ==
    (ret # <<>> /\ ~ret[1].panicked) =>
        ret[1].public_methods =
            ReachableNames(SelectSeq(ContractParts(arg.pt), IsFunction))

\* A member run without a visibility attribute was collected, and a top-level
\* function helper was not.
C7_Witness ==
    /\ ret # <<>>
    /\ ~ret[1].panicked
    /\ ret[1].public_methods = <<run>>
    /\ \E e \in Range(arg.pt) : IsFunction(e) /\ e.name = <<helper>>
    /\ \E e \in Range(ContractParts(arg.pt)) : e.name = <<run>> /\ e.attributes = {}

\* C8: a Script violation is recorded only for a file found under the script
\* root whose path ends with .s.sol, and the entrypoints collected for a file are
\* functions of that file: none for a file that is not an executable script.
C8_ScriptViolationsOnlyForScripts ==
    /\ \A i \in DOMAIN results :
          results[i].kind = "Script" =>
              /\ results[i].file.root = "./script"
              /\ results[i].file.is_file
              /\ Len(results[i].file.name) >= 3
              /\ SubSeq(results[i].file.name, Len(results[i].file.name) - 1,
                        Len(results[i].file.name)) = <<"s", "sol">>
    /\ last.kind = "processed" =>
          /\ \A i \in DOMAIN public_methods :
                \E f \in Range(Functions(last.file.pt)) : FunctionName(f) = public_methods[i]
          /\ (last.dent.root # "./script" \/ last.dent.name = <<"A", "sol">>) =>
                public_methods = <<>>

\* A file named A.s.sol under the test root, with two public functions, was
\* processed after a script that passed, and no Script violation is recorded.
C8_Witness ==
    /\ last.kind = "processed"
    /\ last.dent = DirEntry("./test", <<"A", "s", "sol">>, TRUE)
    /\ last.file = FileTwoPublic
    /\ DirEntry("./script", <<"A", "s", "sol">>, TRUE) \in visited
    /\ Group(results, "Script") = <<>>

\* C9 as stated: a parse failure aborts the run with a propagated error, as a
\* read failure does: validate returns the error to run, which does not succeed.
C9_ParseFailurePropagatesError ==
    last.kind = "parse_failed" =>
        /\ valid_names = "Err"
        /\ pc \in {"fmt", "finish", "done"}
        /\ run_result # "Ok"

\* C9, amended: a parse failure is fatal: it aborts the entire run with a panic
\* (run returns nothing, no error is propagated to it and the formatting pass
\* does not run), so no file after the failing one is processed, no violation
\* is added after it, and the run never ends in success.
C9_ParseFailurePanics ==
    /\ [](last.kind = "parse_failed" =>
            /\ pc = "panicked"
            /\ valid_names = "unset"
            /\ valid_fmt = "unset"
            /\ run_result = "none")
    /\ [][last.kind = "parse_failed" => UNCHANGED vars]_vars

\* A parse failure after a violation was added, with entries left to walk.
C9_Witness ==
    /\ last.kind = "parse_failed"
    /\ added > 0
    /\ entries < MaxEntries
    /\ root < Len(paths)

\* C10: a directory-traversal error is skipped without stopping the walk: the
\* step adds no violation and leaves the walk in the same root, ready for the
\* next entry, and a run with such errors whose report is clean and whose
\* formatting pass succeeded returns Ok.
C10_TraversalErrorSkipped ==
    /\ [][walk_errors' # walk_errors =>
            /\ pc = "walk" /\ pc' = "walk"
            /\ root' = root
            /\ results' = results
            /\ added' = added
            /\ valid_names' = "unset"]_vars
    /\ []((pc = "done" /\ walk_errors > 0 /\ ReportBuilt /\ added = 0 /\ valid_fmt = "Ok")
            => run_result = "Ok")

\* After a traversal error a file of the test root was processed in a later
\* iteration, and the run returned Ok.
C10_Witness ==
    /\ pc = "done"
    /\ run_result = "Ok"
    /\ walk_errors > 0
    /\ visited = {DirEntry("./test", <<"A", "sol">>, TRUE)}
    /\ last.kind = "processed"

====
